---- MODULE Spec2Model ----
(***************************************************************************)
(* Model of auto-prompt-generate.py: the Prefect flow main_flow and its    *)
(* two retried tasks, generate_image_prompt and to_spreadsheet.            *)
(*                                                                         *)
(* Python strings are TLA+ strings, handled character by character with    *)
(* Len, SubSeq and \o, so that str.strip, str.lower and the `in` substring *)
(* test are computed as Python computes them.  The emoji glyph that opens  *)
(* each message of the script is left out of the literals; no pattern the  *)
(* script searches for contains one.                                       *)
(***************************************************************************)
EXTENDS Integers, Sequences, FiniteSets, TLC

VARIABLES
    pc,           \* position of the run inside main_flow
    genAttempts,  \* invocations of generate_image_prompt made by the task engine
    sheetAttempts,\* invocations of to_spreadsheet made by the task engine
    prompt_text,  \* main_flow's local: the value generate_image_prompt returned
    calls,        \* arguments with which to_spreadsheet has been called
    ws,           \* rows appended to each worksheet of "Image Prompt"
    printed,      \* lines printed by the step that ran last
    caught,       \* str(e) of the exception the last failing task attempt caught
    raised,       \* message of the exception the last failing task attempt raised
    exc,          \* message of the exception that reached main_flow's except
    flowError,    \* message of the exception main_flow raised
    lastGen,      \* what the generation call did in the last attempt
    blankSeen,    \* history: some generation response was None or blank
    onlyDeadline  \* history: every generation attempt raised a deadline fault

vars == <<pc, genAttempts, sheetAttempts, prompt_text, calls, ws, printed,
          caught, raised, exc, flowError, lastGen, blankSeen, onlyDeadline>>

(***************************************************************************)
(* Bounds of the model.                                                    *)
(***************************************************************************)
MaxTextLen == 3

(***************************************************************************)
(* Python values and string operations.                                    *)
(***************************************************************************)
None == [isNone |-> TRUE, s |-> ""]

Str(s) == [isNone |-> FALSE, s |-> s]

Char(s, i) == SubSeq(s, i, i)

Whitespace == {" ", "\t", "\n"}

RECURSIVE lstrip(_)
lstrip(s) ==
    IF Len(s) > 0 /\ Char(s, 1) \in Whitespace
    THEN lstrip(SubSeq(s, 2, Len(s)))
    ELSE s

RECURSIVE rstrip(_)
rstrip(s) ==
    IF Len(s) > 0 /\ Char(s, Len(s)) \in Whitespace
    THEN rstrip(SubSeq(s, 1, Len(s) - 1))
    ELSE s

\* A plausible slip: the text is used as received.
strip_omitted(s) == s

strip(s) == rstrip(lstrip(s))

UpperAlpha == "ABCDEFGHIJKLMNOPQRSTUVWXYZ"

LowerAlpha == "abcdefghijklmnopqrstuvwxyz"

UpperChars == {Char(UpperAlpha, i) : i \in 1..Len(UpperAlpha)}

LowerOf ==
    {<<Char(UpperAlpha, i), Char(LowerAlpha, i)>> : i \in 1..Len(UpperAlpha)}

LowerChar(c) ==
    IF c \in UpperChars THEN (CHOOSE m \in LowerOf : m[1] = c)[2] ELSE c

\* str.lower, character by character (the string is halved to keep the
\* recursion shallow).
RECURSIVE lower(_)
lower(s) ==
    IF Len(s) = 0 THEN ""
    ELSE IF Len(s) = 1 THEN LowerChar(s)
    ELSE lower(SubSeq(s, 1, Len(s) \div 2))
             \o lower(SubSeq(s, Len(s) \div 2 + 1, Len(s)))

\* Python's `pat in s` on strings.
In(pat, s) ==
    \E i \in 1..(Len(s) - Len(pat) + 1) : SubSeq(s, i, i + Len(pat) - 1) = pat

\* Python's s[:n].
Prefix(s, n) == SubSeq(s, 1, IF Len(s) < n THEN Len(s) ELSE n)

(***************************************************************************)
(* What the remote calls can do.  A generation call returns a response     *)
(* whose text is None or a string, or raises a fault with a description;   *)
(* a spreadsheet call returns or raises a fault with a description.        *)
(***************************************************************************)
Chars == {" ", "a"}

RECURSIVE TextsUpTo(_)
TextsUpTo(n) ==
    IF n = 0 THEN {""}
    ELSE LET T == TextsUpTo(n - 1) IN T \cup {t \o c : t \in T, c \in Chars}

ResponseTexts == {None} \cup {Str(t) : t \in TextsUpTo(MaxTextLen)}

GenFaults ==
    { "429 RESOURCE_EXHAUSTED. Quota exceeded for model gemini-2.5-flash",
      "400 INVALID_ARGUMENT. API key not valid. reason: API_KEY_INVALID",
      "403 PERMISSION_DENIED for key AIzaSyEXAMPLE",
      "504 Deadline Exceeded",
      "DEADLINE EXCEEDED after 60s",
      "ReadTimeout: the read operation timed out (timeout=60)",
      "Response candidate was BLOCKED: finish_reason SAFETY",
      "Connection reset by peer" }

GenOutcomes ==
    {[kind |-> "response", text |-> t, desc |-> ""] : t \in ResponseTexts}
        \cup {[kind |-> "fault", text |-> None, desc |-> d] : d \in GenFaults}

SheetFaults ==
    { "APIError: [429]: Quota exceeded for quota metric 'Write requests'",
      "APIError: [403]: The caller does not have permission",
      "APIError: [404]: Requested entity was not found.",
      "TransportError: SSL handshake failed",
      "HTTPSConnectionPool(host='sheets.googleapis.com'): Max retries exceeded",
      "The read operation timed out (read timeout=120)",
      "[Errno 2] No such file or directory: 'chatbot_key.json'" }

\* A call of to_spreadsheet meets a fault in get_google_sheets, a fault in
\* append_row, or none.
SheetOutcomes ==
    {[at |-> "none", desc |-> ""]}
        \cup {[at |-> a, desc |-> d] : a \in {"open", "append"}, d \in SheetFaults}

(***************************************************************************)
(* generate_image_prompt                                                   *)
(***************************************************************************)
\* A plausible slip: one retry too many.
GenRetries_OneMore == 3 + 1

GenRetries == 3

GenGeneratedLine(cleaned_prompt) == "Generated Prompt: " \o cleaned_prompt

GenEmptyWarning == "Warning: Gemini returned an empty response."

GenEmptyOutput == "Prompt Generation Failed: Empty Output"

GenQuotaMsg == "Error: Google AI API Quota Exceeded."

GenPermissionMsg == "Error: Google API Key is invalid or restricted."

GenTimeoutMsg == "Error: Request to Gemini timed out."

GenSafetyMsg == "Error: AI response was blocked by safety filters."

GenUnknownMsg == "Error: Prompt generation failed due to a system issue."

\* A plausible slip: the rule for timeouts looks for "timeout" alone.
GenFinalErrorMessage_NoDeadline(error_str) ==
    IF In("quota", error_str) \/ In("429", error_str) THEN GenQuotaMsg
    ELSE IF In("api_key", error_str) \/ In("403", error_str)
            \/ In("permission", error_str) THEN GenPermissionMsg
    ELSE IF In("timeout", error_str) THEN GenTimeoutMsg
    ELSE IF In("safety", error_str) \/ In("blocked", error_str) THEN GenSafetyMsg
    ELSE GenUnknownMsg

GenFinalErrorMessage(error_str) ==
    IF In("quota", error_str) \/ In("429", error_str) THEN GenQuotaMsg
    ELSE IF In("api_key", error_str) \/ In("403", error_str)
            \/ In("permission", error_str) THEN GenPermissionMsg
    ELSE IF In("timeout", error_str) \/ In("deadline", error_str) THEN GenTimeoutMsg
    ELSE IF In("safety", error_str) \/ In("blocked", error_str) THEN GenSafetyMsg
    ELSE GenUnknownMsg

\* final_error_message for every str(e) the except block can meet, computed
\* once.
GenFinalErrorMessages ==
    {<<e, GenFinalErrorMessage(lower(e))>> : e \in GenFaults \cup {GenEmptyOutput}}

\* The except block: e is str(e), lines what the try block printed before.
GenExcept(e, lines) ==
    LET final_error_message == (CHOOSE m \in GenFinalErrorMessages : m[1] = e)[2]
    IN [ok |-> FALSE, value |-> None,
        printed |-> Append(lines, final_error_message),
        caught |-> e, raised |-> final_error_message]

\* One invocation of the task's body.
generate_image_prompt(o) ==
    IF o.kind = "fault" THEN GenExcept(o.desc, <<>>)
    ELSE IF ~o.text.isNone /\ o.text.s /= "" /\ Len(strip(o.text.s)) > 0
    THEN LET cleaned_prompt == strip(o.text.s)
         IN [ok |-> TRUE, value |-> Str(cleaned_prompt),
             printed |-> <<GenGeneratedLine(cleaned_prompt)>>,
             caught |-> "", raised |-> ""]
    ELSE GenExcept(GenEmptyOutput, <<GenEmptyWarning>>)

(***************************************************************************)
(* to_spreadsheet                                                          *)
(***************************************************************************)
SheetRetries == 3

Worksheets == {"Process", "Done"}

\* A plausible slip: the row goes to the archive tab.
AppendTarget_Done == "Done"

\* ws_process of get_google_sheets, the handle append_row is called on.
AppendTarget == "Process"

SheetAppendedLine(prompt) ==
    "Successfully appended prompt: " \o Prefix(prompt, 30) \o "..."

SheetEmptyWarning == "Warning: Prompt text is empty or None."

SheetEmptyInput == "Spreadsheet Error: Empty Input Data"

SheetQuotaMsg == "Error: Google Sheets API Quota Exceeded."

SheetPermissionMsg ==
    "Error: Google Sheets Permission Denied or Invalid Credentials."

SheetNotFoundMsg == "Error: Target Worksheet or Spreadsheet ID not found."

SheetNetworkMsg == "Error: Network connection to Google API failed."

SheetUnknownMsg(e) ==
    "Error: Spreadsheet update failed due to a system issue -> " \o e \o "."

SheetFinalError(e) ==
    LET error_str == lower(e)
    IN IF In("quota", error_str) \/ In("429", error_str) THEN SheetQuotaMsg
       ELSE IF In("permission", error_str) \/ In("403", error_str)
       THEN SheetPermissionMsg
       ELSE IF In("not found", error_str) \/ In("404", error_str)
       THEN SheetNotFoundMsg
       ELSE IF In("transport", error_str) \/ In("ssl", error_str)
               \/ In("connect", error_str) THEN SheetNetworkMsg
       ELSE SheetUnknownMsg(e)

\* final_error for every str(e) the except block can meet, computed once.
SheetFinalErrors ==
    {<<e, SheetFinalError(e)>> : e \in SheetFaults \cup {SheetEmptyInput}}

SheetExcept(e, lines) ==
    LET final_error == (CHOOSE m \in SheetFinalErrors : m[1] = e)[2]
    IN [ok |-> FALSE, appends |-> <<>>, printed |-> Append(lines, final_error),
        caught |-> e, raised |-> final_error]

\* One invocation of the task's body on argument p, the service doing o;
\* appends lists the append_row calls that added a row.
to_spreadsheet(p, o) ==
    IF o.at = "open" THEN SheetExcept(o.desc, <<>>)
    ELSE IF ~p.isNone /\ Len(strip(p.s)) > 0
    THEN IF o.at = "append" THEN SheetExcept(o.desc, <<>>)
         ELSE [ok |-> TRUE,
               appends |-> <<[to |-> AppendTarget, values |-> <<p.s>>]>>,
               printed |-> <<SheetAppendedLine(p.s)>>,
               caught |-> "", raised |-> ""]
    ELSE SheetExcept(SheetEmptyInput, <<SheetEmptyWarning>>)

RECURSIVE append_rows(_, _)
append_rows(sheets, appends) ==
    IF appends = <<>> THEN sheets
    ELSE append_rows([sheets EXCEPT ![Head(appends).to] =
                          Append(@, Head(appends).values)],
                     Tail(appends))

(***************************************************************************)
(* main_flow                                                               *)
(***************************************************************************)
FlowCompletedLine == "Flow completed successfully."

FlowInvalidWarning == "Flow Interrupted: Generated prompt is invalid."

FlowInvalidOutput == "Flow Error: Generator returned empty data."

FlowQuotaMsg == "Flow Halted: API Quota Exceeded in sub-task."

FlowPermissionMsg == "Flow Halted: Authentication or Permission error."

FlowTimeoutMsg == "Flow Halted: Sub-task timed out."

FlowSpreadsheetMsg == "Flow Halted: Spreadsheet operation failed."

FlowUnknownMsg == "Flow Failed: An unexpected system error occurred."

FlowFinalError(e) ==
    LET error_str == lower(e)
    IN IF In("quota", error_str) \/ In("429", error_str) THEN FlowQuotaMsg
       ELSE IF In("permission", error_str) \/ In("403", error_str)
       THEN FlowPermissionMsg
       ELSE IF In("timeout", error_str) THEN FlowTimeoutMsg
       ELSE IF In("spreadsheet", error_str) THEN FlowSpreadsheetMsg
       ELSE FlowUnknownMsg

\* final_error for every str(e) the except block can meet, computed once.
FlowFinalErrors ==
    {<<e, FlowFinalError(e)>> :
        e \in {m[2] : m \in GenFinalErrorMessages}
                 \cup {m[2] : m \in SheetFinalErrors} \cup {FlowInvalidOutput}}

(***************************************************************************)
(* The run.  The task engine invokes a task, and invokes it again after a  *)
(* failed invocation while retries are left; when none is left the         *)
(* exception of the last invocation reaches main_flow.                     *)
(***************************************************************************)
\* For the history variables: a fault whose description says "deadline
\* exceeded" in any case and that no rule before the timeout rule matches.
IsDeadlineFault(o) ==
    /\ o.kind = "fault"
    /\ In("deadline exceeded", lower(o.desc))
    /\ ~ \E pat \in {"quota", "429", "api_key", "403", "permission"} :
            In(pat, lower(o.desc))

DeadlineFaults == {o \in GenOutcomes : IsDeadlineFault(o)}

\* For the history variables and the properties: None, empty or made of
\* whitespace only, decided without strip.
IsBlank(v) == v.isNone \/ \A i \in 1..Len(v.s) : Char(v.s, i) \in Whitespace

Init ==
    /\ pc = "generate_image_prompt"
    /\ genAttempts = 0
    /\ sheetAttempts = 0
    /\ prompt_text = None
    /\ calls = <<>>
    /\ ws = [w \in Worksheets |-> <<>>]
    /\ printed = <<>>
    /\ caught = ""
    /\ raised = ""
    /\ exc = ""
    /\ flowError = ""
    /\ lastGen = [kind |-> "none", text |-> None, desc |-> ""]
    /\ blankSeen = FALSE
    /\ onlyDeadline = TRUE

\* main_flow line 187: one invocation of the task generate_image_prompt.
GenerateImagePrompt ==
    /\ pc = "generate_image_prompt"
    /\ \E o \in GenOutcomes :
        LET r == generate_image_prompt(o)
        IN /\ genAttempts' = genAttempts + 1
           /\ lastGen' = o
           /\ blankSeen' = (blankSeen \/ (o.kind = "response" /\ IsBlank(o.text)))
           /\ onlyDeadline' = (onlyDeadline /\ o \in DeadlineFaults)
           /\ printed' = r.printed
           /\ caught' = r.caught
           /\ raised' = r.raised
           /\ IF r.ok
              THEN /\ prompt_text' = r.value
                   /\ pc' = "validate"
                   /\ exc' = exc
              ELSE /\ prompt_text' = prompt_text
                   /\ IF genAttempts + 1 <= GenRetries
                      THEN pc' = pc /\ exc' = exc
                      ELSE pc' = "except" /\ exc' = r.raised
    /\ UNCHANGED <<sheetAttempts, calls, ws, flowError>>

\* main_flow lines 191-201: the check between the two tasks.
ValidatePrompt ==
    /\ pc = "validate"
    /\ IF ~prompt_text.isNone /\ Len(strip(prompt_text.s)) > 0
       THEN /\ calls' = Append(calls, prompt_text)
            /\ pc' = "to_spreadsheet"
            /\ UNCHANGED <<printed, exc>>
       ELSE /\ printed' = <<FlowInvalidWarning>>
            /\ exc' = FlowInvalidOutput
            /\ pc' = "except"
            /\ UNCHANGED calls
    /\ UNCHANGED <<genAttempts, sheetAttempts, prompt_text, ws, caught, raised,
                   flowError, lastGen, blankSeen, onlyDeadline>>

\* main_flow line 195: one invocation of the task to_spreadsheet.
ToSpreadsheet ==
    /\ pc = "to_spreadsheet"
    /\ \E o \in SheetOutcomes :
        LET r == to_spreadsheet(calls[Len(calls)], o)
        IN /\ sheetAttempts' = sheetAttempts + 1
           /\ ws' = append_rows(ws, r.appends)
           /\ printed' = r.printed
           /\ caught' = r.caught
           /\ raised' = r.raised
           /\ IF r.ok
              THEN pc' = "completed" /\ exc' = exc
              ELSE IF sheetAttempts + 1 <= SheetRetries
                   THEN pc' = pc /\ exc' = exc
                   ELSE pc' = "except" /\ exc' = r.raised
    /\ UNCHANGED <<genAttempts, prompt_text, calls, flowError, lastGen,
                   blankSeen, onlyDeadline>>

\* main_flow line 196.
FlowCompleted ==
    /\ pc = "completed"
    /\ printed' = <<FlowCompletedLine>>
    /\ pc' = "success"
    /\ UNCHANGED <<genAttempts, sheetAttempts, prompt_text, calls, ws, caught,
                   raised, exc, flowError, lastGen, blankSeen, onlyDeadline>>

\* main_flow lines 203-230.
FlowExcept ==
    /\ pc = "except"
    /\ flowError' = (CHOOSE m \in FlowFinalErrors : m[1] = exc)[2]
    /\ printed' = <<flowError'>>
    /\ pc' = "failed"
    /\ UNCHANGED <<genAttempts, sheetAttempts, prompt_text, calls, ws, caught,
                   raised, exc, lastGen, blankSeen, onlyDeadline>>

Next ==
    \/ GenerateImagePrompt
    \/ ValidatePrompt
    \/ ToSpreadsheet
    \/ FlowCompleted
    \/ FlowExcept

Spec == Init /\ [][Next]_vars

\* The task engine and the flow never stop between two steps of a run.
FairSpec == Spec /\ WF_vars(Next)

(***************************************************************************)
(* The task to_spreadsheet on its own: invoked by the task engine with any *)
(* argument, a caller other than main_flow.                                *)
(***************************************************************************)
PromptInputs == {None} \cup {Str(t) : t \in TextsUpTo(MaxTextLen)}

InitSheet ==
    /\ pc = "to_spreadsheet"
    /\ genAttempts = 0
    /\ sheetAttempts = 0
    /\ prompt_text = None
    /\ calls \in {<<p>> : p \in PromptInputs}
    /\ ws = [w \in Worksheets |-> <<>>]
    /\ printed = <<>>
    /\ caught = ""
    /\ raised = ""
    /\ exc = ""
    /\ flowError = ""
    /\ lastGen = [kind |-> "none", text |-> None, desc |-> ""]
    /\ blankSeen = FALSE
    /\ onlyDeadline = TRUE

NextSheet == ToSpreadsheet

SpecSheet == InitSheet /\ [][NextSheet]_vars

(***************************************************************************)
(* Properties.                                                             *)
(***************************************************************************)
NoRows == \A w \in Worksheets : ws[w] = <<>>

GenCategoryMessages ==
    {GenQuotaMsg, GenPermissionMsg, GenTimeoutMsg, GenSafetyMsg, GenUnknownMsg}

SheetCategoryMessages ==
    {SheetQuotaMsg, SheetPermissionMsg, SheetNotFoundMsg, SheetNetworkMsg}

FlowMessages ==
    {FlowQuotaMsg, FlowPermissionMsg, FlowTimeoutMsg, FlowSpreadsheetMsg,
     FlowUnknownMsg}

\* The category a step gave the failure whose message is msg.
StepCategory(msg) ==
    IF msg \in {GenQuotaMsg, SheetQuotaMsg} THEN "quota"
    ELSE IF msg \in {GenPermissionMsg, SheetPermissionMsg} THEN "permission"
    ELSE IF msg = GenTimeoutMsg THEN "timeout"
    ELSE IF msg = GenSafetyMsg THEN "safety"
    ELSE IF msg = SheetNotFoundMsg THEN "not-found"
    ELSE IF msg = SheetNetworkMsg THEN "network"
    ELSE "unknown"

\* C1: the message a failing step raises never contains the description
\* text of the fault the step caught.
C1_RaisedOmitsFaultText == raised /= "" => ~In(caught, raised)

\* C2: no value that is None, empty or whitespace-only is passed by
\* main_flow to to_spreadsheet or is the value of an appended row, in any
\* state of any run, retried attempts included.
C2_BlankNeverPassedNorStored ==
    /\ \A i \in 1..Len(calls) : ~IsBlank(calls[i])
    /\ \A w \in Worksheets : \A i \in 1..Len(ws[w]) :
           \A j \in 1..Len(ws[w][i]) : ~IsBlank(Str(ws[w][i][j]))

\* C2 witness: a run that received a blank response, retried, passed the
\* prompt on and appended it.
C2_Witness ==
    /\ blankSeen
    /\ genAttempts >= 2
    /\ Len(calls) = 1
    /\ Len(ws["Process"]) = 1

\* C3: a run that ends in success has appended exactly one row to
\* "Process", holding the prompt the generator returned, and none to
\* "Done"; a run that ends in failure has appended no row at all.
C3_RowsAtEnd ==
    /\ pc = "success" =>
           /\ ws["Process"] = <<(<<prompt_text.s>>)>>
           /\ ~prompt_text.isNone
           /\ ws["Done"] = <<>>
    /\ pc = "failed" => NoRows

\* C3 witness: a successful run whose append was retried.
C3_Witness == pc = "success" /\ sheetAttempts >= 2 /\ Len(ws["Process"]) = 1

\* C4: a generation response whose text is None, empty or all-whitespace
\* makes generate_image_prompt raise the EmptyOutput failure, distinct from
\* the unknown-system-failure one.
C4_EmptyOutputFailure ==
    (lastGen.kind = "response" /\ IsBlank(lastGen.text)) =>
        (raised = GenEmptyOutput /\ raised /= GenUnknownMsg)

\* C5: for prompt_text None, empty or whitespace-only, every invocation of
\* to_spreadsheet fails with the failure carrying "Spreadsheet Error: Empty
\* Input Data", whatever the spreadsheet service does, and appends nothing.
C5_EmptyInputFailure ==
    (IsBlank(calls[1]) /\ sheetAttempts >= 1) =>
        (In(SheetEmptyInput, raised) /\ NoRows)

\* C6: the row to_spreadsheet appends to "Process" holds the trimmed
\* prompt_text, not the text as passed in.
C6_RowIsTrimmed ==
    \A i \in 1..Len(ws["Process"]) : ws["Process"][i] = <<strip(calls[1].s)>>

\* C7: while every generation attempt has raised a "deadline exceeded"
\* fault matching no earlier rule, the step's failure is the Timeout
\* message, to_spreadsheet is never invoked and no row is appended; the run
\* can only end in failure, with a flow-level message.
C7_DeadlineRun ==
    (onlyDeadline /\ genAttempts >= 1) =>
        /\ raised = GenTimeoutMsg
        /\ calls = <<>>
        /\ sheetAttempts = 0
        /\ NoRows
        /\ pc \in {"generate_image_prompt", "except", "failed"}
        /\ pc \in {"except", "failed"} => exc = GenTimeoutMsg
        /\ pc = "failed" => flowError \in FlowMessages

\* C7 witness: a run that failed after four deadline faults.
C7_Witness == onlyDeadline /\ pc = "failed" /\ genAttempts = 4

\* C8: no step is attempted more than 4 times, a step is attempted again
\* only after a failed attempt and never after a successful one, the append
\* is attempted only after generation has succeeded, and every run reaches
\* success or failure.
C8_Retries ==
    /\ [](/\ genAttempts <= 4
          /\ sheetAttempts <= 4
          /\ sheetAttempts > 0 => ~prompt_text.isNone)
    /\ [][/\ genAttempts' \in {genAttempts, genAttempts + 1}
          /\ sheetAttempts' \in {sheetAttempts, sheetAttempts + 1}
          /\ ~prompt_text.isNone => genAttempts' = genAttempts
          /\ pc \in {"completed", "success"} => sheetAttempts' = sheetAttempts
          /\ (genAttempts' > genAttempts /\ genAttempts > 0) => raised /= ""
          /\ (sheetAttempts' > sheetAttempts /\ sheetAttempts > 0) => raised /= ""
         ]_vars
    /\ <>(pc \in {"success", "failed"})

\* C8 witness: a run in which both steps used every retry and succeeded.
C8_Witness == genAttempts = 4 /\ sheetAttempts = 4 /\ pc = "success"

\* C9: a failing invocation of a step prints exactly one line, the step's
\* sanitized category message.
C9_OneSanitizedLine ==
    (raised /= "" /\ pc \in {"generate_image_prompt", "to_spreadsheet", "except"}) =>
        /\ printed = <<raised>>
        /\ raised \in GenCategoryMessages \cup SheetCategoryMessages
                        \cup {SheetUnknownMsg("")}

\* C10: the flow-level message agrees with the failing step's category:
\* quota, permission and timeout map to the flow message of that name, any
\* other to_spreadsheet failure to the spreadsheet-operation message, and
\* the flow-level unknown message is left for the remaining failures.
C10_FlowCategoryAgrees ==
    pc = "failed" =>
        LET c == StepCategory(exc)
            fromSheet == sheetAttempts > 0
        IN /\ c = "quota" => flowError = FlowQuotaMsg
           /\ c = "permission" => flowError = FlowPermissionMsg
           /\ c = "timeout" => flowError = FlowTimeoutMsg
           /\ (fromSheet /\ c \in {"not-found", "network", "unknown"}) =>
                  flowError = FlowSpreadsheetMsg
           /\ flowError = FlowUnknownMsg =>
                  (~fromSheet /\ c \in {"safety", "unknown"})

====
